---- MODULE Spec2Model ----
\* Form Management API (main.py) with its Google Sheets mirror (google_sheets.py).
\* The record store, the request handlers, the background sync tasks they
\* schedule, and the spreadsheet the tasks clear and rewrite.
EXTENDS Integers, Sequences, FiniteSets, TLC

VARIABLES env, store, nextId, now, tasks, spreadsheet, last_response

vars == <<env, store, nextId, now, tasks, spreadsheet, last_response>>

\* ---------------------------------------------------------------- bounds

\* Requests are served until this many background sync tasks have been
\* scheduled (each accepted create, update, delete and list schedules one).
MaxTasks == 2

\* ---------------------------------------------------------------- Python values

\* A Python value is its type tag and its payload.
PyNone == [t |-> "NoneType", v |-> ""]
PyStr(s) == [t |-> "str", v |-> s]
PyInt(n) == [t |-> "int", v |-> n]
PyBool(b) == [t |-> "bool", v |-> b]
PyDateTime(n) == [t |-> "datetime", v |-> n]

DigitChars == <<"0", "1", "2", "3", "4", "5", "6", "7", "8", "9">>

RECURSIVE IntToStr(_)
IntToStr(n) ==
    IF n < 10 THEN DigitChars[n + 1]
    ELSE IntToStr(n \div 10) \o DigitChars[(n % 10) + 1]

\* strftime("%Y-%m-%d %H:%M:%S") of the n-th clock tick (n < 60).
strftime(n) ==
    "2024-03-05 14:30:" \o (IF n < 10 THEN "0" ELSE "") \o IntToStr(n)

\* Python's str(): str(None) is the text "None".
str(x) ==
    CASE x.t = "str" -> x
      [] x.t = "int" -> PyStr(IntToStr(x.v))
      [] x.t = "NoneType" -> PyStr("None")
      [] x.t = "bool" -> PyStr(IF x.v THEN "True" ELSE "False")
      [] x.t = "datetime" -> PyStr(strftime(x.v) \o "+00:00")

isinstance(x, type) == x.t = type

\* Python truthiness of a value.
truthy(x) ==
    CASE x.t = "NoneType" -> FALSE
      [] x.t = "str" -> x.v # ""
      [] x.t = "int" -> x.v # 0
      [] x.t = "bool" -> x.v
      [] x.t = "datetime" -> TRUE

\* ---------------------------------------------------------------- validation

\* The characters of the request texts the model submits.
Chars(s) ==
    CASE s = "a@x.com" -> <<"a", "@", "x", ".", "c", "o", "m">>
      [] s = "b@y.org" -> <<"b", "@", "y", ".", "o", "r", "g">>
      [] s = "a@x" -> <<"a", "@", "x">>
      [] s = "123456789" -> <<"1", "2", "3", "4", "5", "6", "7", "8", "9">>
      [] s = "+1123456789" ->
            <<"+", "1", "1", "2", "3", "4", "5", "6", "7", "8", "9">>
      [] s = "12345" -> <<"1", "2", "3", "4", "5">>
      [] OTHER -> <<>>

Digits == {"0", "1", "2", "3", "4", "5", "6", "7", "8", "9"}
Lower == {"a", "b", "c", "d", "e", "f", "g", "h", "i", "j", "k", "l", "m",
          "n", "o", "p", "q", "r", "s", "t", "u", "v", "w", "x", "y", "z"}
Upper == {"A", "B", "C", "D", "E", "F", "G", "H", "I", "J", "K", "L", "M",
          "N", "O", "P", "Q", "R", "S", "T", "U", "V", "W", "X", "Y", "Z"}
Alpha == Lower \cup Upper
LocalChars == Alpha \cup Digits \cup {".", "_", "%", "+", "-"}
DomainChars == Alpha \cup Digits \cup {".", "-"}

AllIn(cs, lo, hi, class) == \A k \in lo..hi : cs[k] \in class

\* '$' matches at the end of the text or before one final newline.
EndsAt(cs, n) == n = Len(cs) \/ (n = Len(cs) - 1 /\ cs[Len(cs)] = "\n")

\* re.compile(r'^\+?1?\d{9,15}$').match(phone)
validate_phone_number(phone) ==
    LET cs == Chars(phone) IN
    \E plus \in 0..1, one \in 0..1, d \in 9..15 :
        LET n == plus + one + d IN
        /\ n <= Len(cs)
        /\ plus = 1 => cs[1] = "+"
        /\ one = 1 => cs[plus + 1] = "1"
        /\ AllIn(cs, plus + one + 1, n, Digits)
        /\ EndsAt(cs, n)

\* re.compile(r'^[a-zA-Z0-9._%+-]+@[a-zA-Z0-9.-]+\.[a-zA-Z]{2,}$').match(email)
validate_email(email) ==
    LET cs == Chars(email) IN
    \E at \in 1..Len(cs), dot \in 1..Len(cs), n \in 1..Len(cs) :
        /\ 1 < at /\ at + 1 < dot /\ dot + 2 <= n
        /\ AllIn(cs, 1, at - 1, LocalChars)
        /\ cs[at] = "@"
        /\ AllIn(cs, at + 1, dot - 1, DomainChars)
        /\ cs[dot] = "."
        /\ AllIn(cs, dot + 1, n, Alpha)
        /\ EndsAt(cs, n)

\* ---------------------------------------------------------------- row export

DEFAULT_SHEET_NAME == "Sheet1"

\* def format_datetime(dt): dt.strftime(...) if dt else ""
format_datetime(dt) ==
    IF truthy(dt) THEN PyStr(strftime(dt.v)) ELSE PyStr("")

\* def get_form_value(form, field): str(getattr(form, field, ''))
get_form_value(form, field) ==
    IF field \in DOMAIN form THEN str(form[field]) ELSE str(PyStr(""))

headers ==
    <<PyStr("ID"), PyStr("Name"), PyStr("Email"), PyStr("Phone"),
      PyStr("Message"), PyStr("Company"), PyStr("Service"),
      PyStr("Created At")>>

\* The list appended for one form (google_sheets.py lines 77-89).
row(form) ==
    <<get_form_value(form, "id"),
      get_form_value(form, "name"),
      get_form_value(form, "email"),
      get_form_value(form, "phone_number"),
      get_form_value(form, "message"),
      get_form_value(form, "company"),
      get_form_value(form, "service"),
      format_datetime(
          IF isinstance(get_form_value(form, "created_at"), "datetime")
          THEN get_form_value(form, "created_at")
          ELSE PyNone)>>

\* A grid built with the first form left out (an off-by-one in the loop).
values_from_second(forms) ==
    <<headers>> \o [i \in 1..(Len(forms) - 1) |-> row(forms[i + 1])]

\* values = [headers] followed by one row per form, in the order given.
values(forms) == <<headers>> \o [i \in 1..Len(forms) |-> row(forms[i])]

\* ---------------------------------------------------------------- record store

\* models.Form columns declared nullable=False.
NotNullColumns == {"name", "email", "phone_number", "company", "service"}

\* The columns a request body may carry (schemas.FormBase / FormUpdate).
FormFields ==
    {"name", "email", "phone_number", "message", "company", "service"}

\* Request bodies of POST /forms/ (schemas.FormCreate); message is optional.
CreateInputs ==
    [name : {PyStr("A")},
     email : {PyStr("a@x.com"), PyStr("a@x")},
     phone_number : {PyStr("123456789"), PyStr("12345")},
     message : {PyNone, PyStr("hi")},
     company : {PyStr("C")},
     service : {PyStr("S")}]

\* model_dump(exclude_unset=True) of the PUT bodies the model submits: only
\* the keys the request carried, a key carried as null included.
UpdateInputs ==
    {[email |-> PyStr("b@y.org")],
     [email |-> PyStr("a@x")],
     [phone_number |-> PyStr("12345")],
     [name |-> PyNone],
     [name |-> PyStr("B"), message |-> PyStr("yo")]}

\* Query parameters of GET /forms/ (defaults skip=0, limit=10).
SkipInputs == {0, 1}
LimitInputs == {1, 10}

\* The forms table outlives the process (create_all keeps existing rows): at
\* start-up it is empty or holds a form submitted earlier.
InitialStores ==
    {<<>>,
     <<[id |-> PyInt(1), name |-> PyStr("A"), email |-> PyStr("a@x.com"),
        phone_number |-> PyStr("123456789"), message |-> PyStr("hi"),
        company |-> PyStr("C"), service |-> PyStr("S"),
        created_at |-> PyDateTime(0), updated_at |-> PyNone]>>}

\* db.query(models.Form).filter(models.Form.id == form_id).first()
Find(form_id) ==
    IF \E i \in 1..Len(store) : store[i].id = PyInt(form_id)
    THEN CHOOSE i \in 1..Len(store) : store[i].id = PyInt(form_id)
    ELSE 0

\* db.query(models.Form).all()
QueryAll(table) == table

\* db.query(models.Form).offset(skip).limit(limit).all()
QueryPage(table, skip, limit) ==
    SubSeq(table, skip + 1,
           IF skip + limit < Len(table) THEN skip + limit ELSE Len(table))

Remove(seq, i) == SubSeq(seq, 1, i - 1) \o SubSeq(seq, i + 1, Len(seq))

\* ---------------------------------------------------------------- sync task

\* A scheduled background task: the handler that scheduled it, the forms it
\* was handed, its position in sync_forms_to_sheet, and the external calls it
\* has made (calls) and completed (steps).
NewTask(by, forms) ==
    [by |-> by, forms |-> forms, pc |-> "start", sheet_name |-> "", result |-> PyNone,
     calls |-> {}, steps |-> {}]

\* background_tasks.add_task(sync_to_sheets_background, forms)
add_task(by, forms) == Append(tasks, NewTask(by, forms))

Response(status, body) == [status |-> status, body |-> body]

\* ---------------------------------------------------------------- requests

\* POST /forms/ with the phone number left unchecked.
create_form_phone_unchecked(form) ==
    /\ Len(tasks) < MaxTasks
    /\ IF ~validate_email(form.email.v)
       THEN /\ last_response' = Response(400, <<>>)
            /\ UNCHANGED <<store, nextId, now, tasks>>
       ELSE LET db_form == [id |-> PyInt(nextId),
                            name |-> form.name,
                            email |-> form.email,
                            phone_number |-> form.phone_number,
                            message |-> form.message,
                            company |-> form.company,
                            service |-> form.service,
                            created_at |-> PyDateTime(now),
                            updated_at |-> PyNone]
            IN /\ store' = Append(store, db_form)
               /\ nextId' = nextId + 1
               /\ now' = now + 1
               /\ tasks' = add_task("create_form", QueryAll(store'))
               /\ last_response' = Response(201, <<db_form>>)
    /\ UNCHANGED <<env, spreadsheet>>

\* POST /forms/
create_form(form) ==
    /\ Len(tasks) < MaxTasks
    /\ IF ~validate_email(form.email.v) \/ ~validate_phone_number(form.phone_number.v)
       THEN /\ last_response' = Response(400, <<>>)
            /\ UNCHANGED <<store, nextId, now, tasks>>
       ELSE LET db_form == [id |-> PyInt(nextId),
                            name |-> form.name,
                            email |-> form.email,
                            phone_number |-> form.phone_number,
                            message |-> form.message,
                            company |-> form.company,
                            service |-> form.service,
                            created_at |-> PyDateTime(now),
                            updated_at |-> PyNone]
            IN /\ store' = Append(store, db_form)
               /\ nextId' = nextId + 1
               /\ now' = now + 1
               /\ tasks' = add_task("create_form", QueryAll(store'))
               /\ last_response' = Response(201, <<db_form>>)
    /\ UNCHANGED <<env, spreadsheet>>

\* GET /forms/
get_forms(skip, limit) ==
    /\ Len(tasks) < MaxTasks
    /\ LET forms == QueryPage(store, skip, limit)
       IN /\ tasks' = add_task("get_forms", forms)
          /\ last_response' = Response(200, forms)
    /\ UNCHANGED <<env, store, nextId, now, spreadsheet>>

\* GET /forms/{form_id}
get_form(form_id) ==
    /\ Len(tasks) < MaxTasks
    /\ last_response' =
          IF Find(form_id) = 0 THEN Response(404, <<>>)
          ELSE Response(200, <<store[Find(form_id)]>>)
    /\ UNCHANGED <<env, store, nextId, now, tasks, spreadsheet>>

\* The body is dumped with its unset message too, which is assigned as null.
setattrs_message_reset(db_form, update_data) ==
    [f \in DOMAIN db_form |->
        IF f \in DOMAIN update_data THEN update_data[f]
        ELSE IF f = "message" THEN PyNone ELSE db_form[f]]

\* for key, value in update_data.items(): setattr(db_form, key, value)
setattrs(db_form, update_data) ==
    [f \in DOMAIN db_form |->
        IF f \in DOMAIN update_data THEN update_data[f] ELSE db_form[f]]

\* PUT /forms/{form_id}
update_form(form_id, update_data) ==
    /\ Len(tasks) < MaxTasks
    /\ LET i == Find(form_id)
           keys == DOMAIN update_data
           \* re.match on None raises TypeError: an unhandled 500
           type_error ==
               \/ "email" \in keys /\ update_data["email"] = PyNone
               \/ /\ "email" \in keys => validate_email(update_data["email"].v)
                  /\ "phone_number" \in keys
                  /\ update_data["phone_number"] = PyNone
           invalid ==
               \/ "email" \in keys /\ ~validate_email(update_data["email"].v)
               \/ "phone_number" \in keys
                  /\ ~validate_phone_number(update_data["phone_number"].v)
       IN IF i = 0
          THEN /\ last_response' = Response(404, <<>>)
               /\ UNCHANGED <<store, now, tasks>>
          ELSE IF type_error
          THEN /\ last_response' = Response(500, <<>>)
               /\ UNCHANGED <<store, now, tasks>>
          ELSE IF invalid
          THEN /\ last_response' = Response(400, <<>>)
               /\ UNCHANGED <<store, now, tasks>>
          ELSE LET assigned == setattrs(store[i], update_data)
                   dirty == assigned # store[i]
                   db_form == IF dirty
                              THEN [assigned EXCEPT !.updated_at = PyDateTime(now)]
                              ELSE assigned
               IN IF \E c \in NotNullColumns : db_form[c] = PyNone
                  THEN \* db.commit() raises IntegrityError: an unhandled 500
                       /\ last_response' = Response(500, <<>>)
                       /\ UNCHANGED <<store, now, tasks>>
                  ELSE /\ store' = [store EXCEPT ![i] = db_form]
                       /\ now' = IF dirty THEN now + 1 ELSE now
                       /\ tasks' = add_task("update_form", QueryAll(store'))
                       /\ last_response' = Response(200, <<db_form>>)
    /\ UNCHANGED <<env, nextId, spreadsheet>>

\* DELETE /forms/{form_id} that schedules the sync before looking the form up.
delete_form_syncs_first(form_id) ==
    /\ Len(tasks) < MaxTasks
    /\ LET i == Find(form_id)
       IN IF i = 0
          THEN /\ last_response' = Response(404, <<>>)
               /\ tasks' = add_task("delete_form", QueryAll(store))
               /\ UNCHANGED store
          ELSE /\ store' = Remove(store, i)
               /\ tasks' = add_task("delete_form", QueryAll(store'))
               /\ last_response' = Response(204, <<>>)
    /\ UNCHANGED <<env, nextId, now, spreadsheet>>

\* DELETE /forms/{form_id}
delete_form(form_id) ==
    /\ Len(tasks) < MaxTasks
    /\ LET i == Find(form_id)
       IN IF i = 0
          THEN /\ last_response' = Response(404, <<>>)
               /\ UNCHANGED <<store, tasks>>
          ELSE /\ store' = Remove(store, i)
               /\ tasks' = add_task("delete_form", QueryAll(store'))
               /\ last_response' = Response(204, <<>>)
    /\ UNCHANGED <<env, nextId, now, spreadsheet>>

\* ---------------------------------------------------------------- spreadsheet

\* The environment of the process: GOOGLE_CREDENTIALS, GOOGLE_SHEET_ID and
\* the tabs of the target spreadsheet.
Environments ==
    [creds : {"unset", "malformed", "ok"},
     sheet_id : {"unset", "set"},
     tabs : {{}, {"Sheet1"}, {"Sheet1", "lunar"}}]

\* What the target tab holds at start-up: the grid an earlier sync of an
\* empty table wrote.
InitialRows == <<headers>>

\* values().clear(range="<tab>!A:H"): every row of the tab's columns A..H.
values_clear(ss, tab) == [ss EXCEPT ![tab] = <<>>]

\* The write is anchored at A2: row 1 is left as it is (blank if absent).
values_update_at_A2(ss, tab, grid) ==
    [ss EXCEPT ![tab] =
        (IF @ = <<>> THEN <<[c \in 1..8 |-> PyStr("")]>> ELSE SubSeq(@, 1, 1))
        \o grid \o SubSeq(@, Len(grid) + 2, Len(@))]

\* values().update(range="<tab>!A1", body={'values': grid}): the cells the
\* grid covers are overwritten, rows below it are left as they were.

values_update(ss, tab, grid) ==
    [ss EXCEPT ![tab] = grid \o SubSeq(@, Len(grid) + 1, Len(@))]

\* def get_google_sheets_service(): None unless the credentials load.
get_google_sheets_service(creds) ==
    IF creds = "ok"
    THEN [service |-> TRUE, calls |-> {"build"}]
    ELSE [service |-> FALSE, calls |-> {}]

\* The target is always the default tab.
resolve_sheet_name_default(sheets) == DEFAULT_SHEET_NAME

\* sheet_name = 'lunar' if 'lunar' in sheets else DEFAULT_SHEET_NAME
resolve_sheet_name(sheets) ==
    IF "lunar" \in sheets THEN "lunar" ELSE DEFAULT_SHEET_NAME

\* Only "except HttpError" present: any other exception leaves the function.
except_clauses_http_only(exc) ==
    CASE exc = "HttpError" -> [pc |-> "done", result |-> PyBool(FALSE)]
      [] exc = "Exception" -> [pc |-> "raised", result |-> PyNone]

\* The two except clauses of sync_forms_to_sheet: what an exception raised
\* inside the try block turns into.
except_clauses(exc) ==
    CASE exc = "HttpError" -> [pc |-> "done", result |-> PyBool(FALSE)]
      [] exc = "Exception" -> [pc |-> "done", result |-> PyBool(FALSE)]

Exceptions == {"HttpError", "Exception"}

return(task, value) == [task EXCEPT !.pc = "done", !.result = value]

\* A failed attempt is put back at its beginning and tried again.
raise_retries(task, exc) == [task EXCEPT !.pc = "start"]

raise(task, exc) ==
    [task EXCEPT !.pc = except_clauses(exc).pc,
                 !.result = except_clauses(exc).result]

Done(t) == tasks[t].pc = "done"

\* The sheet id is not checked: the task goes on to list the tabs.
SyncStart_no_id_check(t) ==
    /\ tasks[t].pc = "start"
    /\ LET svc == get_google_sheets_service(env.creds)
           begun == [tasks[t] EXCEPT !.calls = svc.calls]
       IN tasks' = [tasks EXCEPT ![t] =
            IF ~svc.service
            THEN return(begun, PyBool(FALSE))
            ELSE [begun EXCEPT
                     !.calls = @ \cup {"get"},
                     !.steps = {"auth", "sheet_id", "tabs"},
                     !.sheet_name = resolve_sheet_name(env.tabs),
                     !.pc = "clear"]]
    /\ UNCHANGED <<env, store, nextId, now, spreadsheet, last_response>>

\* Lines 46-63: build the service, read GOOGLE_SHEET_ID, list the tabs of
\* the spreadsheet and choose the target (none of it changes the sheet).
SyncStart(t) ==
    /\ tasks[t].pc = "start"
    /\ LET svc == get_google_sheets_service(env.creds)
           begun == [tasks[t] EXCEPT !.calls = svc.calls]
       IN tasks' = [tasks EXCEPT ![t] =
            IF ~svc.service
            THEN return(begun, PyBool(FALSE))
            ELSE IF env.sheet_id = "unset"
            THEN return([begun EXCEPT !.steps = {"auth"}], PyBool(FALSE))
            ELSE [begun EXCEPT
                     !.calls = @ \cup {"get"},
                     !.steps = {"auth", "sheet_id", "tabs"},
                     !.sheet_name = resolve_sheet_name(env.tabs),
                     !.pc = "clear"]]
    /\ UNCHANGED <<env, store, nextId, now, spreadsheet, last_response>>

\* Lines 46-59 when spreadsheets().get(...).execute() raises.
SyncGetMetadataFail(t, exc) ==
    /\ tasks[t].pc = "start"
    /\ get_google_sheets_service(env.creds).service
    /\ env.sheet_id = "set"
    /\ tasks' = [tasks EXCEPT ![t] =
          raise([@ EXCEPT
                    !.calls = get_google_sheets_service(env.creds).calls
                              \cup {"get"},
                    !.steps = {"auth", "sheet_id"}],
                exc)]
    /\ UNCHANGED <<env, store, nextId, now, spreadsheet, last_response>>

\* Lines 66-70: clear the target range.
SyncClear(t) ==
    /\ tasks[t].pc = "clear"
    /\ tasks[t].sheet_name \in env.tabs
    /\ spreadsheet' = values_clear(spreadsheet, tasks[t].sheet_name)
    /\ tasks' = [tasks EXCEPT ![t] =
          [@ EXCEPT !.calls = @ \cup {"clear"},
                    !.steps = @ \cup {"clear"},
                    !.pc = "update"]]
    /\ UNCHANGED <<env, store, nextId, now, last_response>>

\* The failure of the clear call is swallowed and the task goes on to write.
SyncClearFail_swallowed(t, exc) ==
    /\ tasks[t].pc = "clear"
    /\ tasks' = [tasks EXCEPT ![t] =
          [@ EXCEPT !.calls = @ \cup {"clear"}, !.pc = "update"]]
    /\ UNCHANGED <<env, store, nextId, now, spreadsheet, last_response>>

SyncClearFail(t, exc) ==
    /\ tasks[t].pc = "clear"
    /\ tasks' = [tasks EXCEPT ![t] =
          raise([@ EXCEPT !.calls = @ \cup {"clear"}], exc)]
    /\ UNCHANGED <<env, store, nextId, now, spreadsheet, last_response>>

\* Lines 73-99: build the grid, write it at A1, return True.
SyncUpdate(t) ==
    /\ tasks[t].pc = "update"
    /\ tasks[t].sheet_name \in env.tabs
    /\ spreadsheet' =
          values_update(spreadsheet, tasks[t].sheet_name, values(tasks[t].forms))
    /\ tasks' = [tasks EXCEPT ![t] =
          return([@ EXCEPT !.calls = @ \cup {"update"},
                           !.steps = @ \cup {"update"}],
                 PyBool(TRUE))]
    /\ UNCHANGED <<env, store, nextId, now, last_response>>

\* The sync runs inside the request and its failure becomes the response.
SyncUpdateFail_propagates(t, exc) ==
    /\ tasks[t].pc = "update"
    /\ tasks' = [tasks EXCEPT ![t] =
          raise([@ EXCEPT !.calls = @ \cup {"update"}], exc)]
    /\ last_response' = Response(500, <<>>)
    /\ UNCHANGED <<env, store, nextId, now, spreadsheet>>

SyncUpdateFail(t, exc) ==
    /\ tasks[t].pc = "update"
    /\ tasks' = [tasks EXCEPT ![t] =
          raise([@ EXCEPT !.calls = @ \cup {"update"}], exc)]
    /\ UNCHANGED <<env, store, nextId, now, spreadsheet, last_response>>

\* ---------------------------------------------------------------- specification

Init ==
    /\ env \in Environments
    /\ store \in InitialStores
    /\ nextId = Len(store) + 1
    /\ now = 1
    /\ tasks = <<>>
    /\ spreadsheet = [tab \in env.tabs |-> InitialRows]
    /\ last_response = Response(0, <<>>)

Next ==
    \/ \E form \in CreateInputs : create_form(form)
    \/ \E skip \in SkipInputs, limit \in LimitInputs : get_forms(skip, limit)
    \/ \E form_id \in 1..nextId : get_form(form_id)
    \/ \E form_id \in 1..nextId, update_data \in UpdateInputs :
          update_form(form_id, update_data)
    \/ \E form_id \in 1..nextId : delete_form(form_id)
    \/ \E t \in 1..Len(tasks) : SyncStart(t)
    \/ \E t \in 1..Len(tasks), exc \in Exceptions : SyncGetMetadataFail(t, exc)
    \/ \E t \in 1..Len(tasks) : SyncClear(t)
    \/ \E t \in 1..Len(tasks), exc \in Exceptions : SyncClearFail(t, exc)
    \/ \E t \in 1..Len(tasks) : SyncUpdate(t)
    \/ \E t \in 1..Len(tasks), exc \in Exceptions : SyncUpdateFail(t, exc)

Spec == Init /\ [][Next]_vars

\* ---------------------------------------------------------------- properties

TaskIds == 1..Len(tasks)
True == PyBool(TRUE)
False == PyBool(FALSE)

\* The content of the tab the sync tasks address.
Mirror ==
    IF resolve_sheet_name(env.tabs) \in env.tabs
    THEN spreadsheet[resolve_sheet_name(env.tabs)]
    ELSE InitialRows

\* Task u has asked the service to clear or to write.
Touched(u) == tasks[u].calls \cap {"clear", "update"} # {}

\* Task t is the only one that has asked the service to clear or to write.
Isolated(t) == \A u \in TaskIds \ {t} : ~Touched(u)

\* C1: after two publish calls given different whole-table snapshots have
\* both completed (no third one involved), the sheet holds exactly the grid
\* of one of them.
C1_FinalIsOneSnapshot ==
    \A t1, t2 \in TaskIds :
        ( /\ t1 # t2
          /\ tasks[t1].by # "get_forms" /\ tasks[t2].by # "get_forms"
          /\ tasks[t1].result = True /\ tasks[t2].result = True
          /\ tasks[t1].forms # tasks[t2].forms
          /\ \A u \in TaskIds \ {t1, t2} : ~Touched(u) )
        => Mirror \in {values(tasks[t1].forms), values(tasks[t2].forms)}

\* C2: a publish call, the only one to have addressed the sheet, leaves it
\* holding exactly its grid when it returned True, and exactly the content
\* it found (the start-up content) when it returned False.
C2_AllOrNothing ==
    \A t \in TaskIds :
        (Done(t) /\ Isolated(t)) =>
            /\ tasks[t].result = True => Mirror = values(tasks[t].forms)
            /\ tasks[t].result = False => Mirror = InitialRows

\* C3: whenever a request handler schedules a sync task, the forms it hands
\* over are the whole table as it then is.
C3_SnapshotIsWholeTable ==
    [][Len(tasks') > Len(tasks) => tasks'[Len(tasks')].forms = store']_vars

\* C4: once every scheduled sync task has run to completion without a
\* failure (and no request is in progress), the sheet holds the grid of the
\* store's current contents.
C4_MirrorCatchesUp ==
    ( /\ tasks # <<>>
      /\ \A t \in TaskIds : Done(t) /\ tasks[t].result = True )
    => Mirror = values(store)

\* C5: no step of any sync task, whatever its outcome, changes the record
\* store or the response the triggering request produced.
C5_SyncLeavesRequestOutcome ==
    [][(\E t \in TaskIds : tasks'[t] # tasks[t]) =>
          /\ store' = store
          /\ nextId' = nextId
          /\ last_response' = last_response]_vars

C5_Witness ==
    \E t \in TaskIds :
        /\ Done(t) /\ tasks[t].result = False
        /\ "clear" \in tasks[t].steps
        /\ tasks[t].by = "create_form"
        /\ last_response.status = 201
        /\ tasks[t].forms = store

\* C6: a sync task is always inside sync_forms_to_sheet or has returned a
\* boolean (no exception leaves the function), and it returned True exactly
\* when authentication, sheet id, tab listing, clear and write all completed.
C6_TotalOverFailures ==
    \A t \in TaskIds :
        /\ tasks[t].pc \in {"start", "clear", "update", "done"}
        /\ ~Done(t) => tasks[t].result = PyNone
        /\ Done(t) =>
            /\ tasks[t].result \in {True, False}
            /\ tasks[t].result = True <=>
                  tasks[t].steps = {"auth", "sheet_id", "tabs", "clear", "update"}

C6_Witness ==
    /\ \E t \in TaskIds : Done(t) /\ tasks[t].result = True
    /\ \E t \in TaskIds :
          /\ Done(t) /\ tasks[t].result = False
          /\ tasks[t].steps = {"auth", "sheet_id", "tabs", "clear"}

\* Task t asked for the clear and the clear failed.
ClearFailed(t) == "clear" \in tasks[t].calls \ tasks[t].steps

\* C7: a task whose clear call failed has returned False without asking for
\* the write, and the step in which the clear fails leaves the spreadsheet
\* as it was.
C7_ClearFailureStops ==
    /\ [](\A t \in TaskIds :
            ClearFailed(t) =>
                /\ Done(t) /\ tasks[t].result = False
                /\ "update" \notin tasks[t].calls)
    /\ [][\A t \in TaskIds :
            (~ClearFailed(t) /\ "clear" \in tasks'[t].calls \ tasks'[t].steps)
                => spreadsheet' = spreadsheet]_vars

C7_Witness ==
    \E t \in TaskIds :
        /\ ClearFailed(t) /\ Done(t)
        /\ env.creds = "ok" /\ env.sheet_id = "set"
        /\ Mirror # <<>>

\* C8 as stated: with GOOGLE_SHEET_ID unset a sync call returns False having
\* made no call at all, the construction of the service handle included.
C8_NoCallWithoutSheetId ==
    env.sheet_id = "unset" =>
        \A t \in TaskIds :
            tasks[t].pc # "start" =>
                /\ Done(t) /\ tasks[t].result = False
                /\ tasks[t].calls = {}

\* C8 as amended: with GOOGLE_SHEET_ID unset a sync call returns False having
\* asked for no tab listing, no clear and no write; the service handle is
\* still built first when the credentials load.
C8_NoRequestWithoutSheetId ==
    env.sheet_id = "unset" =>
        \A t \in TaskIds :
            tasks[t].pc # "start" =>
                /\ Done(t) /\ tasks[t].result = False
                /\ tasks[t].calls \subseteq {"build"}
                /\ tasks[t].calls = {"build"} <=> env.creds = "ok"

C8_Witness ==
    /\ env.sheet_id = "unset" /\ env.creds = "ok"
    /\ \E t \in TaskIds : Done(t) /\ tasks[t].calls = {"build"}

\* C9: the grid built from the full scan is the 8-column header followed by
\* one 8-cell row per live record, in scan order, each record once.
C9_GridMatchesTable ==
    LET grid == values(QueryAll(store)) IN
    /\ Len(grid) = Len(store) + 1
    /\ grid[1] = headers /\ Len(headers) = 8
    /\ \A i \in 1..Len(store) :
          /\ Len(grid[i + 1]) = 8
          /\ grid[i + 1][1] = str(store[i].id)
          /\ grid[i + 1][2] = store[i].name
          /\ grid[i + 1][3] = store[i].email
    /\ \A i, j \in 1..Len(store) : i # j => store[i].id # store[j].id

C9_Witness ==
    /\ Len(store) = 1 /\ store[1].id = PyInt(2)
    /\ \E t \in TaskIds : tasks[t].by = "delete_form"

\* C10: a record whose message is null has the empty string in the Message
\* cell of its row.
C10_NullMessageIsEmpty ==
    \A i \in 1..Len(store) :
        store[i].message = PyNone => values(store)[i + 1][5] = PyStr("")

\* C11: in the grid a sync task builds, the Created At cell of a form whose
\* created_at is present is its "%Y-%m-%d %H:%M:%S" rendering, and it is the
\* empty string exactly when created_at is absent.
C11_CreatedAtIsRendered ==
    \A t \in TaskIds :
        \A i \in 1..Len(tasks[t].forms) :
            LET form == tasks[t].forms[i]
                cell == values(tasks[t].forms)[i + 1][8]
            IN /\ form.created_at # PyNone =>
                    cell = PyStr(strftime(form.created_at.v))
               /\ cell = PyStr("") <=> form.created_at = PyNone

\* Position of a task inside sync_forms_to_sheet, in program order.
Rank(pc) ==
    CASE pc = "start" -> 0
      [] pc = "clear" -> 1
      [] pc = "update" -> 2
      [] pc = "done" -> 3
      [] OTHER -> 4

\* A request handler ran in this step: no scheduled task moved.
RequestStep == \A t \in TaskIds : tasks'[t] = tasks[t]

\* C12: a create, update or delete that succeeds appends exactly one task of
\* its own and leaves the tasks already scheduled as they are (no step
\* answered 200 that schedules nothing is an update); a task only
\* moves forward through build/list, clear, write (so it asks for at most one
\* clear and one write), a finished task never moves again, and no step of a
\* task schedules another.
C12_OneAttemptPerRequest ==
    [][/\ ( /\ RequestStep
            /\ last_response' # last_response \/ store' # store
            /\ last_response'.status \in {201, 204}
               \/ (last_response'.status = 200 /\ store' # store) )
          => /\ Len(tasks') = Len(tasks) + 1
             /\ tasks'[Len(tasks')].pc = "start"
             /\ tasks'[Len(tasks')].by # "get_forms"
       /\ ( /\ RequestStep
            /\ last_response'.status = 200
            /\ Len(tasks') # Len(tasks) + 1 )
          => \A form_id \in 1..nextId, update_data \in UpdateInputs :
                ~update_form(form_id, update_data)
       /\ \A t \in TaskIds :
            tasks'[t] # tasks[t] =>
                /\ Len(tasks') = Len(tasks)
                /\ ~Done(t)
                /\ Rank(tasks'[t].pc) > Rank(tasks[t].pc)
                /\ Rank(tasks'[t].pc) <= 3
                /\ \A u \in TaskIds \ {t} : tasks'[u] = tasks[u]]_vars

C12_Witness ==
    /\ Len(tasks) = 2
    /\ tasks[1].by = "create_form" /\ tasks[2].by = "delete_form"
    /\ Done(1) /\ tasks[1].result = False /\ "clear" \in tasks[1].calls
    /\ Done(2) /\ tasks[2].result = True

\* C13: the table content a create, update or delete task publishes is read by
\* the task itself when it begins to run, after the response was sent: at the
\* step in which the task leaves its start, the forms it carries are the
\* table as it is then.
C13_SyncReadsWhenItRuns ==
    [][\A t \in TaskIds :
          ( /\ tasks[t].by # "get_forms"
            /\ tasks[t].pc = "start"
            /\ tasks'[t].pc # "start" )
          => tasks'[t].forms = QueryAll(store)]_vars

\* C14: while one task is the only one that has asked the service to clear or
\* to write, the tab holds the content from before the call until the clear,
\* nothing between the clear and the write, and the whole new grid after the
\* write; and whatever ran before, a step of a task leaves the tab as it was,
\* or empties it, or, when the tab is still empty from the clear, turns it
\* into the task's whole grid.
C14_ThreeContentsOnly ==
    /\ [](\A t \in TaskIds :
            Isolated(t) =>
                /\ tasks[t].pc \in {"start", "clear"} => Mirror = InitialRows
                /\ tasks[t].pc = "update" => Mirror = <<>>
                /\ tasks[t].result = True => Mirror = values(tasks[t].forms)
                /\ tasks[t].result = False => Mirror \in {InitialRows, <<>>})
    /\ [][\A t \in TaskIds :
            tasks'[t] # tasks[t] =>
                \/ spreadsheet' = spreadsheet
                \/ Mirror' = <<>>
                \/ Mirror # <<>>
                \/ Mirror' = values(tasks[t].forms)]_vars

C14_Witness ==
    \E t \in TaskIds :
        /\ Isolated(t)
        /\ tasks[t].result = True
        /\ Len(tasks[t].forms) = 1
        /\ Mirror = values(tasks[t].forms)
        /\ Mirror # InitialRows

\* C15: once a task has listed the tabs, its target is "lunar" if and only if
\* a tab of that name was reported and "Sheet1" otherwise, also when no tab
\* was reported; the target never changes afterwards, and a step of the task
\* changes the content of no tab but its target.
C15_TargetTab ==
    /\ [](\A t \in TaskIds :
            "tabs" \in tasks[t].steps =>
                /\ tasks[t].sheet_name = "lunar" <=> "lunar" \in env.tabs
                /\ tasks[t].sheet_name = "Sheet1" <=> "lunar" \notin env.tabs)
    /\ [][\A t \in TaskIds :
            tasks'[t] # tasks[t] =>
                /\ "tabs" \in tasks[t].steps =>
                        tasks'[t].sheet_name = tasks[t].sheet_name
                /\ \A tab \in env.tabs \ {tasks[t].sheet_name} :
                        spreadsheet'[tab] = spreadsheet[tab]]_vars

C15_Witness ==
    \E t \in TaskIds :
        /\ env.tabs = {"Sheet1", "lunar"}
        /\ tasks[t].result = True
        /\ Len(tasks[t].forms) = 1
        /\ {"clear", "update"} \subseteq tasks[t].calls
        /\ spreadsheet["lunar"] = values(tasks[t].forms)
        /\ spreadsheet["Sheet1"] = InitialRows

\* C16: an update that succeeds assigns the supplied fields and leaves every
\* field the request did not carry, the id and created_at of the record, the
\* number and order of the records and every other record as they were.
C16_UpdateTouchesSuppliedOnly ==
    [][( /\ last_response'.status = 200
         /\ Len(tasks') = Len(tasks) + 1
         /\ tasks'[Len(tasks')].by = "update_form" )
       => \A form_id \in 1..nextId, update_data \in UpdateInputs :
            update_form(form_id, update_data)
            => LET i == Find(form_id)
               IN /\ i # 0
                  /\ Len(store') = Len(store)
                  /\ \A j \in (1..Len(store)) \ {i} : store'[j] = store[j]
                  /\ \A f \in DOMAIN update_data :
                        store'[i][f] = update_data[f]
                  /\ \A f \in FormFields \ DOMAIN update_data :
                        store'[i][f] = store[i][f]
                  /\ store'[i].id = store[i].id
                  /\ store'[i].created_at = store[i].created_at]_vars

C16_Witness ==
    /\ last_response.status = 200
    /\ Len(tasks) = 2 /\ tasks[2].by = "update_form"
    /\ Len(store) = 2 /\ last_response.body = <<store[2]>>
    /\ store[2].email = PyStr("b@y.org")
    /\ store[2].message = PyStr("hi")
    /\ store[2].updated_at # PyNone
    /\ store[1].email = PyStr("a@x.com")

\* C17: a request answered 400 (create or update with an invalid email or
\* phone number) or 404 (update, delete or get of an id the table lacks)
\* leaves the table, the id sequence and the sheet as they were and schedules
\* no task.
C17_RejectedChangesNothing ==
    [][( /\ RequestStep
         /\ last_response' # last_response \/ tasks' # tasks \/ store' # store
         /\ last_response'.status \in {400, 404} )
       => /\ store' = store
          /\ tasks' = tasks
          /\ nextId' = nextId
          /\ spreadsheet' = spreadsheet]_vars

C17_Witness ==
    /\ last_response.status = 404
    /\ store = <<>>
    /\ Len(tasks) = 1 /\ tasks[1].by = "delete_form"

\* C18: every form in the table has an email validate_email accepts and a
\* phone number validate_phone_number accepts.
C18_StoredFormsAreValid ==
    \A i \in 1..Len(store) :
        /\ isinstance(store[i].email, "str")
        /\ validate_email(store[i].email.v)
        /\ isinstance(store[i].phone_number, "str")
        /\ validate_phone_number(store[i].phone_number.v)

C18_Witness ==
    /\ last_response.status = 400
    /\ \E i \in 1..Len(store) :
        /\ store[i].id = PyInt(nextId - 1)
        /\ store[i].email = PyStr("b@y.org")
        /\ store[i].updated_at # PyNone

====
